---- MODULE Spec2Model ----
(***************************************************************************)
(* Equally Sloped Tomography reconstruction (Notebooks/FBP-EST.ipynb):     *)
(* the angle sampler EST_Angles, the forward projection of one image, and  *)
(* the iterative reconstruction EST_reco.                                  *)
(*                                                                         *)
(* Numbers are exact: a float is an extended rational <<p, q>> in lowest   *)
(* terms with q >= 0, where q = 0 encodes the IEEE specials (<<1, 0>> is   *)
(* +inf, <<-1, 0>> is -inf, <<0, 0>> is NaN).  Images and sinograms are    *)
(* sequences of rows.  scipy's rotate is modelled at the quarter turns     *)
(* -90, 0, 90, where bilinear interpolation reproduces the grid; these are *)
(* the angles EST_Angles returns for 1, 2 and 3 projections.               *)
(***************************************************************************)
EXTENDS Integers, Sequences, FiniteSets

VARIABLES
    pc,               \* position in EST_reco / in the operation under study
    sinogram,         \* observed sinogram (argument, never written)
    theta,            \* projection angles in degrees (argument)
    num_iterations,   \* argument
    tolerance,        \* argument
    learning_rate,    \* argument
    num_projections,  \* sinogram.shape[0]
    num_detectors,    \* sinogram.shape[1]
    initial_guess,    \* output of iradon
    estimated_image,  \* current estimate
    previous_error,   \* max error of the previous pass, +inf at first
    iteration,        \* index of the loop pass (0-based, as range() gives it)
    projections,      \* simulated sinogram of the current pass
    error,            \* sinogram - projections
    max_error,        \* max |error|
    backprojected_error, \* correction of the last update, after normalisation
    bp_max,           \* max |backprojected_error| before normalisation
    image_at_start,   \* estimate at the start of the current pass
    prev_at_start,    \* previous_error at the start of the current pass
    projCalls,        \* forward projections performed so far
    updates,          \* update steps (backprojection, update, clip) so far
    arg_n,            \* EST_Angles: its argument
    ret_angles        \* EST_Angles: its result

vars == <<pc, sinogram, theta, num_iterations, tolerance, learning_rate,
          num_projections, num_detectors, initial_guess, estimated_image,
          previous_error, iteration, projections, error, max_error,
          backprojected_error, bp_max, image_at_start, prev_at_start,
          projCalls, updates, arg_n, ret_angles>>

(***************************************************************************)
(* Bounds of the model.                                                    *)
(***************************************************************************)
MaxIter == 3     \* num_iterations ranges over 0..MaxIter
MaxN == 60       \* EST_Angles is called with 1..MaxN
MaxDen == 1000   \* a run is followed while the image's numerators and
                 \* denominators stay within MaxDen
MaxSide == 3     \* forward projection alone: image sides and detector counts

(***************************************************************************)
(* Extended rational arithmetic (the floats of the program).               *)
(***************************************************************************)
Abs(a) == IF a < 0 THEN -a ELSE a

Sgn(a) == IF a < 0 THEN -1 ELSE IF a > 0 THEN 1 ELSE 0

RECURSIVE Gcd(_, _)
Gcd(a, b) == IF b = 0 THEN a ELSE Gcd(b, a % b)

Norm(p, q) ==
    IF q = 0 THEN <<Sgn(p), 0>>
    ELSE LET g == Gcd(Abs(p), q) IN <<p \div g, q \div g>>

R(a) == <<a, 1>>
Zero == <<0, 1>>
Inf == <<1, 0>>
NaN == <<0, 0>>

IsNaN(x) == x[1] = 0 /\ x[2] = 0
IsFinite(x) == x[2] > 0

RNeg(x) == <<-x[1], x[2]>>

RAbs(x) == <<Abs(x[1]), x[2]>>

RAdd(x, y) ==
    IF x[2] = 0 /\ y[2] = 0
    THEN (IF x[1] = y[1] THEN x ELSE NaN)
    ELSE Norm(x[1] * y[2] + y[1] * x[2], x[2] * y[2])

RSub(x, y) == RAdd(x, RNeg(y))

RMul(x, y) == Norm(x[1] * y[1], x[2] * y[2])

RDiv(x, y) ==
    IF y[1] = 0
    THEN (IF y[2] = 0 THEN NaN ELSE <<Sgn(x[1]), 0>>)
    ELSE Norm(x[1] * y[2] * Sgn(y[1]), x[2] * Abs(y[1]))

RLess(x, y) ==
    IF IsNaN(x) \/ IsNaN(y) THEN FALSE
    ELSE IF x[2] = 0 /\ y[2] = 0 THEN x[1] < y[1]
    ELSE x[1] * y[2] < y[1] * x[2]

RLeq(x, y) == x = y \/ RLess(x, y)

\* np.maximum / np.max: the larger operand, NaN if either is NaN
RMax(x, y) ==
    IF IsNaN(x) \/ IsNaN(y) THEN NaN
    ELSE IF RLess(x, y) THEN y ELSE x

(***************************************************************************)
(* EST_Angles                                                              *)
(***************************************************************************)
\* variant: the samples np.linspace gives with endpoint=False (step / num)
linspace_noendpoint(start, stop, num) ==
    [k \in 1..num |-> Norm((k - 1) * (stop - start) + start * num, num)]

\* np.linspace(start, stop, num) with endpoint=True: num samples, the k-th
\* (0-based) being start + k * (stop - start) / (num - 1); one sample gives start
linspace(start, stop, num) ==
    IF num = 1 THEN <<R(start)>>
    ELSE [k \in 1..num |->
            Norm((k - 1) * (stop - start) + start * (num - 1), num - 1)]

\* np.arcsin(x) * 180 / np.pi.  The angle is kept as the arcsine it is, named by
\* its sine: [asin |-> x] is the angle in [-90, 90] degrees whose sine is x.
\* Outside [-1, 1] np.arcsin returns NaN.
arcsin_deg(x) ==
    IF RLess(R(1), RAbs(x)) \/ ~IsFinite(x) THEN [asin |-> NaN]
    ELSE [asin |-> x]

EST_Angles(n) ==
    LET s == linspace(-1, 1, n) IN [k \in 1..n |-> arcsin_deg(s[k])]

\* sine of an angle of [-90, 90] degrees
SinOf(a) == a.asin

\* the opposite angle: arcsin is odd
NegAngle(a) == [asin |-> RNeg(a.asin)]

\* the angles that are whole degrees (Niven: sines 0, +-1/2, +-1)
Degrees(a) ==
    CASE a.asin = <<-1, 1>> -> -90
      [] a.asin = <<-1, 2>> -> -30
      [] a.asin = <<0, 1>> -> 0
      [] a.asin = <<1, 2>> -> 30
      [] a.asin = <<1, 1>> -> 90

(***************************************************************************)
(* Images and sinograms                                                    *)
(***************************************************************************)
RECURSIVE SumSeq(_)
SumSeq(s) == IF s = <<>> THEN Zero ELSE RAdd(Head(s), SumSeq(Tail(s)))

RECURSIVE MaxAbsSeq(_)
MaxAbsSeq(s) ==
    IF Len(s) = 1 THEN RAbs(s[1]) ELSE RMax(RAbs(Head(s)), MaxAbsSeq(Tail(s)))

RECURSIVE Flatten(_)
Flatten(m) == IF m = <<>> THEN <<>> ELSE Head(m) \o Flatten(Tail(m))

\* np.max(np.abs(m)) of a non-empty matrix
MaxAbs(m) == MaxAbsSeq(Flatten(m))

\* the sequence f as a tuple, its elements evaluated once
Tup(f) == f \o <<>>

zeros(r, c) == Tup([i \in 1..r |-> Tup([j \in 1..c |-> Zero])])

\* scipy.ndimage.rotate(image, angle, reshape=False, order=1) at a quarter turn:
\* the canvas keeps its shape and output sample (i, j) reads input sample
\* (j, S-1-i) at 90 degrees and (S-1-j, i) at -90 (0-based), with no
\* interpolation between samples
rotate(image, angle) ==
    LET S == Len(image) IN
    CASE angle = 0 -> image
      [] angle = 90 ->
            Tup([i \in 1..S |-> Tup([j \in 1..S |-> image[j][S + 1 - i]])])
      [] angle = -90 ->
            Tup([i \in 1..S |-> Tup([j \in 1..S |-> image[S + 1 - j][i]])])

\* np.sum(rotated_image, axis=0): one sum per column
sum_axis0(image) ==
    LET S == Len(image) IN
    Tup([j \in 1..S |-> SumSeq(Tup([i \in 1..S |-> image[i][j]]))])

\* variant: the profile cut or padded at its front
resize_front(projection, D) ==
    LET n == Len(projection) IN
    IF n > D THEN SubSeq(projection, n - D + 1, n)
    ELSE IF n < D THEN [k \in 1..(D - n) |-> Zero] \o projection
    ELSE projection

\* lines 77-80: the profile cut or zero-padded at its end to num_detectors samples
resize(projection, D) ==
    LET n == Len(projection) IN
    IF n > D THEN SubSeq(projection, 1, D)
    ELSE IF n < D THEN projection \o [k \in 1..(D - n) |-> Zero]
    ELSE projection

\* lines 74-80: one pass of the loop over the angles
projection_row(image, angle, D) == resize(sum_axis0(rotate(image, angle)), D)

\* lines 71-82
forward(image, th, P, D) ==
    Tup([i \in 1..P |->
        IF i <= Len(th) THEN projection_row(image, th[i], D)
        ELSE Tup([j \in 1..D |-> Zero])])

MatSub(a, b) ==
    Tup([i \in 1..Len(a) |->
        Tup([j \in 1..Len(a[i]) |-> RSub(a[i][j], b[i][j])])])

MatAdd(a, b) ==
    Tup([i \in 1..Len(a) |->
        Tup([j \in 1..Len(a[i]) |-> RAdd(a[i][j], b[i][j])])])

\* lines 100-101: the error row copied into the leading columns of every image row
expanded_error(S, D, errrow) ==
    Tup([i \in 1..S |->
        Tup([j \in 1..S |-> IF j <= D THEN errrow[j] ELSE Zero])])

\* lines 98-103: the rotated fields summed over the angles
RECURSIVE backproject(_, _, _, _, _)
backproject(err, th, S, D, i) ==
    IF i = 0 THEN zeros(S, S)
    ELSE MatAdd(backproject(err, th, S, D, i - 1),
                rotate(expanded_error(S, D, err[i]), -th[i]))

\* variant: the division without the test of line 106
normalize_unguarded(bp) ==
    LET M == MaxAbs(bp) IN
    Tup([i \in 1..Len(bp) |->
        Tup([j \in 1..Len(bp[i]) |-> RDiv(bp[i][j], M)])])

\* lines 106-107: divide by the maximum magnitude unless it is zero
normalize(bp) ==
    LET M == MaxAbs(bp) IN
    IF M # Zero
    THEN Tup([i \in 1..Len(bp) |->
            Tup([j \in 1..Len(bp[i]) |-> RDiv(bp[i][j], M)])])
    ELSE bp

\* variant: the step without the division by num_projections
gradient_step_undivided(image, bp, lr, P) ==
    Tup([i \in 1..Len(image) |-> Tup([j \in 1..Len(image[i]) |->
        RAdd(image[i][j], RMul(lr, bp[i][j]))])])

\* line 110: estimated_image += learning_rate * (backprojected_error / P)
gradient_step(image, bp, lr, P) ==
    Tup([i \in 1..Len(image) |-> Tup([j \in 1..Len(image[i]) |->
        RAdd(image[i][j], RMul(lr, RDiv(bp[i][j], R(P))))])])

\* variant: no non-negativity constraint
clip_none(image) == image

\* line 111: np.maximum(estimated_image, 0)
clip(image) ==
    Tup([i \in 1..Len(image) |->
        Tup([j \in 1..Len(image[i]) |-> RMax(image[i][j], Zero)])])

(***************************************************************************)
(* Inputs                                                                  *)
(***************************************************************************)
PixVals == {R(-1), R(0), R(1)}
SinoVals == {R(0), R(1)}

\* the angle sets EST_Angles gives for 1, 2 and 3 projections, in degrees
Thetas == {[k \in 1..n |-> Degrees(EST_Angles(n)[k])] : n \in 1..3}

Sinograms == UNION {[1..p -> [1..2 -> SinoVals]] : p \in 1..3}

\* What iradon(..., circle=True) may return for a sinogram with D detectors: a
\* D x D image that is zero outside the inscribed circle (the samples at offset
\* (x, y) from index D // 2 with x^2 + y^2 > (D // 2)^2).
InCircle(D, i, j) ==
    LET c == D \div 2
        x == i - 1 - c
        y == j - 1 - c
    IN x * x + y * y <= c * c

InitImages(D) ==
    {img \in [1..D -> [1..D -> PixVals]] :
        \A i, j \in 1..D : ~InCircle(D, i, j) => img[i][j] = Zero}

Tolerances == {R(-1), R(1)}
LearningRates == {R(0), R(1)}

(***************************************************************************)
(* EST_reco                                                                *)
(***************************************************************************)
Terminal == {"Converged", "Exhausted", "Error"}

\* variant: previous_error starting at 0
initial_previous_error_zero == Zero

\* line 67: previous_error = np.inf
initial_previous_error == Inf

\* variant: one pass too many
loop_continues_inclusive(it, n) == it <= n

\* line 69: range(num_iterations) has another pass to give
loop_continues(it, n) == it < n

\* lines 61-67: the shape, the initial guess from iradon, previous_error = inf.
\* iradon raises ValueError when len(theta) differs from the number of
\* projections; otherwise it returns some D x D image (circle=True).
Enter ==
    /\ pc = "entry"
    /\ num_projections' = Len(sinogram)
    /\ num_detectors' = Len(sinogram[1])
    /\ \/ /\ Len(theta) # Len(sinogram)
          /\ pc' = "Error"
          /\ UNCHANGED <<initial_guess, estimated_image, previous_error,
                         image_at_start>>
       \/ /\ Len(theta) = Len(sinogram)
          /\ \E img \in InitImages(Len(sinogram[1])) :
                /\ initial_guess' = img
                /\ estimated_image' = img
                /\ image_at_start' = img
          /\ previous_error' = initial_previous_error
          /\ pc' = "loop"
    /\ UNCHANGED <<sinogram, theta, num_iterations, tolerance, learning_rate,
                   iteration, projections, error, max_error,
                   backprojected_error, bp_max, prev_at_start, projCalls,
                   updates, arg_n, ret_angles>>

\* lines 69-88: a pass starts; forward projection, error and max_error
Forward ==
    /\ pc = "loop"
    /\ loop_continues(iteration, num_iterations)
    /\ projections' =
            forward(estimated_image, theta, num_projections, num_detectors)
    /\ error' = MatSub(sinogram, projections')
    /\ max_error' = MaxAbs(error')
    /\ image_at_start' = estimated_image
    /\ prev_at_start' = previous_error
    /\ projCalls' = projCalls + 1
    /\ pc' = "check"
    /\ UNCHANGED <<sinogram, theta, num_iterations, tolerance, learning_rate,
                   num_projections, num_detectors, initial_guess,
                   estimated_image, previous_error, iteration,
                   backprojected_error, bp_max, updates, arg_n,
                   ret_angles>>

\* variant: the error itself compared with the tolerance
plateau_abs(prev, err, tol) == RLess(RAbs(err), tol)

\* line 91: np.abs(previous_error - max_error) < tolerance
plateau(prev, err, tol) == RLess(RAbs(RSub(prev, err)), tol)

\* lines 91-95: break on a plateau, else remember max_error
Check ==
    /\ pc = "check"
    /\ IF plateau(previous_error, max_error, tolerance)
       THEN /\ pc' = "Converged"
            /\ UNCHANGED previous_error
       ELSE /\ pc' = "update"
            /\ previous_error' = max_error
    /\ UNCHANGED <<sinogram, theta, num_iterations, tolerance, learning_rate,
                   num_projections, num_detectors, initial_guess,
                   estimated_image, iteration, projections, error, max_error,
                   backprojected_error, bp_max, image_at_start, prev_at_start,
                   projCalls, updates, arg_n, ret_angles>>

\* every sample's numerator and denominator is within the model's bound
Small(image) ==
    \A i \in 1..Len(image) : \A j \in 1..Len(image[i]) :
        Abs(image[i][j][1]) <= MaxDen /\ image[i][j][2] <= MaxDen

\* lines 97-111: backprojection, normalisation, update, clip; the pass ends.
\* The model follows a run only while its samples stay within MaxDen.
Update ==
    /\ pc = "update"
    /\ LET bp == backproject(error, theta, Len(estimated_image),
                             num_detectors, Len(theta))
       IN /\ bp_max' = MaxAbs(bp)
          /\ backprojected_error' = normalize(bp)
    /\ estimated_image' =
            clip(gradient_step(estimated_image, backprojected_error',
                               learning_rate, num_projections))
    /\ Small(estimated_image')
    /\ updates' = updates + 1
    /\ iteration' = iteration + 1
    /\ pc' = "loop"
    /\ UNCHANGED <<sinogram, theta, num_iterations, tolerance, learning_rate,
                   num_projections, num_detectors, initial_guess,
                   previous_error, projections, error, max_error,
                   image_at_start, prev_at_start, projCalls, arg_n,
                   ret_angles>>

\* lines 69 and 113: range(num_iterations) is used up; return estimated_image
Exhaust ==
    /\ pc = "loop"
    /\ ~loop_continues(iteration, num_iterations)
    /\ pc' = "Exhausted"
    /\ UNCHANGED <<sinogram, theta, num_iterations, tolerance, learning_rate,
                   num_projections, num_detectors, initial_guess,
                   estimated_image, previous_error, iteration, projections,
                   error, max_error, backprojected_error, bp_max,
                   image_at_start, prev_at_start, projCalls, updates, arg_n, ret_angles>>

Init ==
    /\ pc = "entry"
    /\ sinogram \in Sinograms
    /\ theta \in Thetas
    /\ num_iterations \in 0..MaxIter
    /\ tolerance \in Tolerances
    /\ learning_rate \in LearningRates
    /\ num_projections = 0 /\ num_detectors = 0
    /\ initial_guess = <<>> /\ estimated_image = <<>>
    /\ previous_error = Inf /\ iteration = 0
    /\ projections = <<>> /\ error = <<>> /\ max_error = Zero
    /\ backprojected_error = <<>> /\ bp_max = Zero
    /\ image_at_start = <<>> /\ prev_at_start = Inf
    /\ projCalls = 0 /\ updates = 0
    /\ arg_n = 0 /\ ret_angles = <<>>

Next == Enter \/ Forward \/ Check \/ Update \/ Exhaust

Spec == Init /\ [][Next]_vars

(***************************************************************************)
(* Properties of EST_reco                                                  *)
(***************************************************************************)
Returned == pc \in {"Converged", "Exhausted"}

Samples(image) == {image[i][j] : i \in 1..Len(image), j \in 1..Len(image)}

NonNegative(image) == \A x \in Samples(image) : RLeq(Zero, x)

AllFinite(m) == \A i \in 1..Len(m) : \A j \in 1..Len(m[i]) : IsFinite(m[i][j])

\* the observed sinogram is the forward projection of the initial estimate
ZeroResidualAtStart ==
    /\ pc # "entry" /\ pc # "Error"
    /\ sinogram = forward(initial_guess, theta, num_projections, num_detectors)

\* C1: with num_iterations >= 1 every sample of the returned image is >= 0,
\* whatever the sinogram, the initial estimate and the exit path; and the
\* image is non-negative in every state reached after an update step.
C1_NonNegative ==
    /\ updates >= 1 => NonNegative(estimated_image)
    /\ (Returned /\ num_iterations >= 1) => NonNegative(estimated_image)

\* a run that started from an estimate with a negative sample has converged
C1_Witness ==
    /\ pc = "Converged"
    /\ ~NonNegative(initial_guess)
    /\ estimated_image # initial_guess

\* the inputs C3 names
Malformed ==
    \/ Len(theta) = 1
    \/ num_iterations = 0
    \/ tolerance = R(-1)
    \/ learning_rate = Zero
    \/ Len(theta) # Len(sinogram)

C3_RejectedAtEntry ==
    Malformed => (pc \in {"entry", "Error"} /\ projCalls = 0 /\ updates = 0)

\* the loop's variant: it falls with every step
Measure ==
    3 * (num_iterations - iteration) +
        (CASE pc = "entry" -> 5
           [] pc = "loop" -> 3
           [] pc = "check" -> 2
           [] pc = "update" -> 1
           [] OTHER -> 0)

C4_Counts ==
    /\ projCalls <= num_iterations
    /\ updates <= projCalls
    /\ Measure >= 0
    /\ pc = "Exhausted" =>
        /\ updates = num_iterations
        /\ projCalls = num_iterations
        /\ num_iterations >= 1 =>
            estimated_image =
                clip(gradient_step(image_at_start, backprojected_error,
                                   learning_rate, num_projections))
    /\ pc = "Converged" =>
        /\ updates = projCalls - 1
        /\ updates < num_iterations
    /\ (pc \in {"loop", "check", "update"} /\ updates = num_iterations) =>
        pc = "loop"

\* C4: a run makes at most num_iterations forward projections and every step
\* brings it closer to its end; it ends Exhausted exactly when no pass
\* converged, and then num_iterations updates were applied and the returned
\* image is the result of the last one; it ends Converged after fewer updates
\* than num_iterations; nothing follows a terminal state.
C4_Terminates ==
    /\ []C4_Counts
    /\ [][pc \notin Terminal /\ Measure' < Measure]_vars

\* three passes, three updates, and the run ended Exhausted
C4_Witness ==
    /\ pc = "Exhausted"
    /\ num_iterations = 3
    /\ updates = 3
    /\ estimated_image # initial_guess

\* C7: the convergence check compares max_error with the previous pass's
\* max_error and comes before the backprojection: a run is Converged exactly on
\* |previous - max_error| < tolerance, with the image and previous_error as
\* they were at the start of that pass and no update made in it; otherwise
\* previous_error becomes max_error before the update, the image still as at
\* the start of the pass.
C7_CheckBeforeUpdate ==
    /\ pc = "Converged" =>
        /\ RLess(RAbs(RSub(prev_at_start, max_error)), tolerance)
        /\ estimated_image = image_at_start
        /\ previous_error = prev_at_start
        /\ updates = projCalls - 1
    /\ pc = "update" =>
        /\ ~RLess(RAbs(RSub(prev_at_start, max_error)), tolerance)
        /\ previous_error = max_error
        /\ estimated_image = image_at_start
        /\ updates = projCalls - 1

\* converged on a plateau with max_error itself not below the tolerance
C7_Witness ==
    /\ pc = "Converged"
    /\ ~RLess(max_error, tolerance)
    /\ previous_error # max_error

\* C8: the correction is divided by its maximum magnitude only when that is
\* non-zero; a zero correction is left as it is, the update then adds zero to
\* every sample, and the pass ends like any other; no sample is ever the
\* result of a division by zero.
C8_ZeroCorrectionBypassed ==
    updates >= 1 =>
        /\ AllFinite(backprojected_error)
        /\ AllFinite(estimated_image)
        /\ bp_max # Zero => MaxAbs(backprojected_error) = R(1)
        /\ bp_max = Zero =>
            /\ backprojected_error = zeros(num_detectors, num_detectors)
            /\ pc = "loop" => estimated_image = clip(image_at_start)

\* an update with a zero correction under two or more projections has completed
C8_Witness ==
    /\ pc = "loop"
    /\ updates >= 1
    /\ bp_max = Zero
    /\ num_projections >= 2
    /\ loop_continues(iteration, num_iterations)

\* C9: the convergence check never fires in the first pass; a returning run
\* with num_iterations >= 1 has made at least one update; the earliest
\* Converged exit is in the second pass; num_iterations = 1 ends Exhausted.
C9_FirstPassUpdates ==
    /\ pc = "Converged" => (projCalls >= 2 /\ updates >= 1)
    /\ (pc \in {"check", "update"} /\ projCalls = 1) =>
            ~RLess(RAbs(RSub(prev_at_start, max_error)), tolerance)
    /\ (Returned /\ num_iterations >= 1) => updates >= 1
    /\ (Returned /\ num_iterations = 1) => pc = "Exhausted"

\* zero residual in the first pass, yet the run converged only in the second
C9_Witness ==
    /\ pc = "Converged"
    /\ projCalls = 2
    /\ previous_error = Zero
    /\ RLess(Zero, tolerance)

\* |a - b| <= bound
Within(a, b, bound) == RLeq(RAbs(RSub(a, b)), bound)

\* C10: with learning_rate > 0 the normalised correction has maximum magnitude
\* 1 or is all zero, and a sample that was non-negative before an update moves
\* by at most learning_rate / num_projections in it; so does every sample in
\* every update after the first.
C10_StepBounded ==
    (pc = "loop" /\ updates >= 1 /\ RLess(Zero, learning_rate)) =>
        /\ MaxAbs(backprojected_error) \in {Zero, R(1)}
        /\ \A i, j \in 1..num_detectors :
            (RLeq(Zero, image_at_start[i][j]) \/ updates >= 2) =>
                Within(estimated_image[i][j], image_at_start[i][j],
                       RDiv(learning_rate, R(num_projections)))

\* in a second or later update some sample moved by the whole bound
C10_Witness ==
    /\ pc = "loop"
    /\ updates >= 2
    /\ RLess(Zero, learning_rate)
    /\ num_projections >= 2
    /\ \E i, j \in 1..num_detectors :
        RAbs(RSub(estimated_image[i][j], image_at_start[i][j])) =
            RDiv(learning_rate, R(num_projections))

(***************************************************************************)
(* The forward projection (lines 70-82) on its own: any image side, any     *)
(* detector count.                                                         *)
(***************************************************************************)
\* square images of side S with samples 0 or 1, at most two of them 1
ProjImages(S) ==
    {img \in [1..S -> [1..S -> {R(0), R(1)}]] :
        Cardinality({ij \in (1..S) \X (1..S) : img[ij[1]][ij[2]] # Zero}) <= 2}

ForwardOnly ==
    /\ pc = "proj"
    /\ projections' =
            forward(estimated_image, theta, num_projections, num_detectors)
    /\ projCalls' = projCalls + 1
    /\ pc' = "proj_done"
    /\ UNCHANGED <<sinogram, theta, num_iterations, tolerance, learning_rate,
                   num_projections, num_detectors, initial_guess,
                   estimated_image, previous_error, iteration, error,
                   max_error, backprojected_error, bp_max, image_at_start,
                   prev_at_start, updates, arg_n, ret_angles>>

InitProj ==
    /\ pc = "proj"
    /\ theta \in Thetas
    /\ num_projections = Len(theta)
    /\ num_detectors \in 1..MaxSide
    /\ \E S \in 1..MaxSide : estimated_image \in ProjImages(S)
    /\ sinogram = <<>> /\ num_iterations = 0
    /\ tolerance = Zero /\ learning_rate = Zero
    /\ initial_guess = <<>>
    /\ previous_error = Inf /\ iteration = 0
    /\ projections = <<>> /\ error = <<>> /\ max_error = Zero
    /\ backprojected_error = <<>> /\ bp_max = Zero
    /\ image_at_start = <<>> /\ prev_at_start = Inf
    /\ projCalls = 0 /\ updates = 0
    /\ arg_n = 0 /\ ret_angles = <<>>

NextProj == ForwardOnly

SpecProj == InitProj /\ [][NextProj]_vars

\* C5: the forward projection of an S x S image under P angles onto D detectors
\* is a sinogram of P rows of exactly D samples; sample k of row i is sample k of
\* the summed profile of the image rotated by angle i when k <= S (the profile's
\* first D samples when S > D, the whole profile when S = D) and 0 beyond it
\* (trailing zeros when S < D).
C5_ShapePreserved ==
    pc = "proj_done" =>
        /\ Len(projections) = Len(theta)
        /\ \A i \in 1..Len(theta) :
            LET profile == sum_axis0(rotate(estimated_image, theta[i])) IN
            /\ Len(projections[i]) = num_detectors
            /\ \A k \in 1..num_detectors :
                projections[i][k] =
                    IF k <= Len(estimated_image) THEN profile[k] ELSE Zero

\* a profile longer than the detector was cut, and a non-zero sample was dropped
C5_Witness ==
    /\ pc = "proj_done"
    /\ Len(estimated_image) > num_detectors
    /\ \E i \in 1..Len(theta) :
        sum_axis0(rotate(estimated_image, theta[i]))[Len(estimated_image)] # Zero

(***************************************************************************)
(* EST_Angles on its own                                                   *)
(***************************************************************************)
CallAngles ==
    /\ pc = "angles"
    /\ ret_angles' = EST_Angles(arg_n)
    /\ pc' = "angles_done"
    /\ UNCHANGED <<sinogram, theta, num_iterations, tolerance, learning_rate,
                   num_projections, num_detectors, initial_guess,
                   estimated_image, previous_error, iteration, projections,
                   error, max_error, backprojected_error, bp_max,
                   image_at_start, prev_at_start, projCalls, updates, arg_n>>

Idle ==
    /\ sinogram = <<>> /\ theta = <<>> /\ num_iterations = 0
    /\ tolerance = Zero /\ learning_rate = Zero
    /\ num_projections = 0 /\ num_detectors = 0
    /\ initial_guess = <<>> /\ estimated_image = <<>>
    /\ previous_error = Inf /\ iteration = 0
    /\ projections = <<>> /\ error = <<>> /\ max_error = Zero
    /\ backprojected_error = <<>> /\ bp_max = Zero
    /\ image_at_start = <<>> /\ prev_at_start = Inf
    /\ projCalls = 0 /\ updates = 0

InitAngles ==
    /\ Idle
    /\ pc = "angles"
    /\ arg_n \in 1..MaxN
    /\ ret_angles = <<>>

NextAngles == CallAngles

SpecAngles == InitAngles /\ [][NextAngles]_vars

\* C6: for n >= 2, EST_Angles(n) has n angles; the sine of the k-th (0-based) is
\* -1 + 2k/(n-1), so the sines run from -1 to 1 in equal steps; and the sequence
\* is symmetric about 0: angle[k] = -angle[n-1-k].
C6_AnglesEquallySloped ==
    (pc = "angles_done" /\ arg_n >= 2) =>
        /\ Len(ret_angles) = arg_n
        /\ SinOf(ret_angles[1]) = R(-1)
        /\ SinOf(ret_angles[arg_n]) = R(1)
        /\ \A k \in 1..arg_n :
            /\ SinOf(ret_angles[k]) =
                    RAdd(R(-1), RDiv(R(2 * (k - 1)), R(arg_n - 1)))
            /\ ret_angles[k] = NegAngle(ret_angles[arg_n + 1 - k])
        /\ \A k \in 1..(arg_n - 1) :
            RSub(SinOf(ret_angles[k + 1]), SinOf(ret_angles[k])) =
                RDiv(R(2), R(arg_n - 1))

\* five angles were produced: -90, -30, 0, 30, 90 degrees
C6_Witness ==
    /\ pc = "angles_done"
    /\ arg_n = 5
    /\ [k \in 1..5 |-> Degrees(ret_angles[k])] = <<-90, -30, 0, 30, 90>>

====
